---- MODULE Spec2Model ----
(***************************************************************************)
(* HostelFit Pro (src/app.py): a Streamlit script that is re-run from top  *)
(* to bottom on every widget interaction.  The session state               *)
(* (st.session_state.daily_log, st.session_state.daily_stats) survives the *)
(* re-runs; everything else is recomputed by each run.                     *)
(*                                                                         *)
(* Python values are modelled as tagged records:                           *)
(*   [t |-> "int",   i |-> n]           an int (arbitrary precision)       *)
(*   [t |-> "float", m |-> m, e |-> k]  an IEEE-754 double, see below      *)
(*   [t |-> "None"]                     None (JSON null)                   *)
(*   [t |-> "str",   s |-> "..."]       a str                              *)
(*   [t |-> "list",  items |-> <<..>>]  a list                             *)
(*   [t |-> "dict",  d |-> record]      a dict, d's DOMAIN being its keys  *)
(***************************************************************************)
EXTENDS Integers, Sequences, FiniteSets, TLC

\* ------------------------------------------------------------------------
\* Python numbers.  A non-negative finite double is m * 2^e where m is its
\* 53-bit significand; 0.0 has m = 0 and e = 0.  TLC's integers are 32 bits
\* wide, so m and the exact sums and products that are rounded to it are
\* kept as naturals of any size: sequences of 15-bit limbs, the least
\* significant first, the last one not 0 (<<>> is 0).

\* IEEE-754 binary64: the significand has 53 bits.
MantBits == 53

Base == 2^15

PyInt(n) == [t |-> "int", i |-> n]

PyNone == [t |-> "None"]

PyStr(s) == [t |-> "str", s |-> s]

PyList(xs) == [t |-> "list", items |-> xs]

PyDict(r) == [t |-> "dict", d |-> r]

PyFloat(m, e) == [t |-> "float", m |-> m, e |-> e]

Zeros(n) == [k \in 1..n |-> 0]

\* The limbs of the integer n >= 0.
RECURSIVE BigOf(_)
BigOf(n) == IF n = 0 THEN <<>> ELSE <<n % Base>> \o BigOf(n \div Base)

\* The integer whose limbs are a (it must fit TLC's integers).
RECURSIVE BigToInt(_)
BigToInt(a) == IF a = <<>> THEN 0 ELSE Head(a) + Base * BigToInt(Tail(a))

\* a + b + c for limb sequences a, b and a carry c.
RECURSIVE BigAdd(_, _, _)
BigAdd(a, b, c) ==
    IF a = <<>> /\ b = <<>> THEN BigOf(c)
    ELSE IF a = <<>> THEN BigAdd(<<0>>, b, c)
    ELSE IF b = <<>> THEN BigAdd(a, <<0>>, c)
    ELSE <<(Head(a) + Head(b) + c) % Base>>
             \o BigAdd(Tail(a), Tail(b), (Head(a) + Head(b) + c) \div Base)

\* a * k + c for a limb sequence a # 0 and integers 0 < k <= Base, c >= 0.
RECURSIVE BigMulSmall(_, _, _)
BigMulSmall(a, k, c) ==
    IF a = <<>> THEN BigOf(c)
    ELSE <<(Head(a) * k + c) % Base>> \o BigMulSmall(Tail(a), k, (Head(a) * k + c) \div Base)

\* a without its most significant limbs that are 0.
RECURSIVE Norm(_)
Norm(a) == IF a = <<>> \/ a[Len(a)] # 0 THEN a ELSE Norm(SubSeq(a, 1, Len(a) - 1))

RECURSIVE BitLenInt(_)
BitLenInt(n) == IF n = 0 THEN 0 ELSE 1 + BitLenInt(n \div 2)

\* The number of bits of a: 0 for 0, else 1 + floor(log2(a)).
BitLen(a) == IF a = <<>> THEN 0 ELSE 15 * (Len(a) - 1) + BitLenInt(a[Len(a)])

\* a * 2^d
ShiftLeft(a, d) ==
    IF a = <<>> \/ d = 0 THEN a
    ELSE Zeros(d \div 15) \o BigMulSmall(a, 2^(d % 15), 0)

\* floor(a / 2^d)
ShiftRight(a, d) ==
    LET q == d \div 15
        r == d % 15
    IN  Norm([k \in 1..(Len(a) - q) |->
                (a[k + q] \div (2^r))
                + (IF k + q < Len(a) THEN (a[k + q + 1] % (2^r)) * (2^(15 - r)) ELSE 0)])

\* Bit k (0 the least significant) of a.
BitAt(a, k) ==
    IF (k \div 15) + 1 > Len(a) THEN 0 ELSE (a[(k \div 15) + 1] \div (2^(k % 15))) % 2

\* Whether a's d least significant bits are all 0.
LowBitsZero(a, d) ==
    /\ \A k \in 1..Len(a) : k <= (d \div 15) => a[k] = 0
    /\ (d \div 15) < Len(a) => a[(d \div 15) + 1] % (2^(d % 15)) = 0

\* The double nearest to a * 2^e (a exact, of any size), ties to even: the
\* rounding every IEEE-754 operation ends with.
RoundToDouble(a, e) ==
    IF a = <<>> THEN PyFloat(<<>>, 0)
    ELSE IF BitLen(a) <= MantBits
    THEN PyFloat(ShiftLeft(a, MantBits - BitLen(a)), e - (MantBits - BitLen(a)))
    ELSE LET drop == BitLen(a) - MantBits
             kept == ShiftRight(a, drop)
             up == /\ BitAt(a, drop - 1) = 1
                   /\ (~LowBitsZero(a, drop - 1) \/ BitAt(a, drop) = 1)
             r == IF up THEN BigAdd(kept, <<>>, 1) ELSE kept
         IN  IF BitLen(r) > MantBits
             THEN PyFloat(ShiftRight(r, 1), e + drop + 1)
             ELSE PyFloat(r, e + drop)

\* float(n) for an int n >= 0.
IntToFloat(n) == RoundToDouble(BigOf(n), 0)

\* x + y for two doubles: the exact sum, rounded once.
FloatAdd(x, y) ==
    IF x.m = <<>> THEN y
    ELSE IF y.m = <<>> THEN x
    ELSE IF x.e < y.e THEN RoundToDouble(BigAdd(x.m, ShiftLeft(y.m, y.e - x.e), 0), x.e)
    ELSE RoundToDouble(BigAdd(ShiftLeft(x.m, x.e - y.e), y.m, 0), y.e)

\* x * n for a double x and an int 0 <= n <= Base (n converts exactly): the
\* exact product, rounded once.
FloatMulInt(x, n) ==
    IF n = 0 \/ x.m = <<>> THEN PyFloat(<<>>, 0)
    ELSE RoundToDouble(BigMulSmall(x.m, n, 0), x.e)

\* int(x): truncation toward zero of a double x >= 0.
FloatToInt(x) ==
    IF x.e >= 0 THEN BigToInt(ShiftLeft(x.m, x.e)) ELSE BigToInt(ShiftRight(x.m, -x.e))

\* The natural with the hexadecimal digits h, most significant first.
RECURSIVE HexBig(_)
HexBig(h) ==
    IF h = <<>> THEN <<>>
    ELSE BigAdd(BigMulSmall(HexBig(SubSeq(h, 1, Len(h) - 1)), 16, 0), BigOf(h[Len(h)]), 0)

\* The double Python's float.hex() writes 0x1.<hex>p<exp>, hex being the 13
\* hexadecimal digits of the fraction.
FloatHex(hex, exp) == PyFloat(HexBig(<<1>> \o hex), exp - 4 * Len(hex))

IsNumber(v) == v.t \in {"int", "float"}

\* Python's a + b on the values the accumulators meet.  The left operand
\* is always a number (the accumulators start, and are reset to, int 0);
\* a right operand that is None, a str or a list raises TypeError.
\* A raised exception is the value Raise(name).
Raise(name) == [t |-> "exc", name |-> name]

IsExc(v) == v.t = "exc"

PyAdd(a, b) ==
    IF ~IsNumber(b) THEN Raise("TypeError")
    ELSE IF a.t = "int" /\ b.t = "int" THEN PyInt(a.i + b.i)
    ELSE FloatAdd(IF a.t = "int" THEN IntToFloat(a.i) ELSE a,
                  IF b.t = "int" THEN IntToFloat(b.i) ELSE b)


\* bool(v): Python's truth value, as 'if meal_data:' takes it.
Truthy(v) ==
    CASE v.t = "int" -> v.i # 0
      [] v.t = "float" -> v.m # <<>>
      [] v.t = "None" -> FALSE
      [] v.t = "str" -> v.s # ""
      [] v.t = "list" -> v.items # <<>>
      [] v.t = "dict" -> DOMAIN v.d # {}
      [] OTHER -> FALSE

\* v[key] for a str key: TypeError unless v is a dict, KeyError when the
\* dict lacks the key.
GetItem(v, key) ==
    IF v.t # "dict" THEN Raise("TypeError")
    ELSE IF key \notin DOMAIN v.d THEN Raise("KeyError")
    ELSE v.d[key]

\* (Variant: v[key] written where v.get(key, default) stands.)
DictGetStrict(v, key, default) ==
    IF v.t # "dict" THEN Raise("TypeError")
    ELSE IF key \in DOMAIN v.d THEN v.d[key] ELSE Raise("KeyError")

\* v.get(key, default) on a dict v.
DictGet(v, key, default) ==
    IF v.t # "dict" THEN Raise("AttributeError")
    ELSE IF key \in DOMAIN v.d THEN v.d[key] ELSE default

\* ------------------------------------------------------------------------
\* Text.  A text is a sequence of symbols.  A one-character string is that
\* character, and BT is the backtick character (a TLA+ string cannot hold
\* one).  A string in angle brackets stands for a stretch of text that holds
\* no backtick and neither starts nor ends with whitespace: "<A>" for the
\* JSON document of Documents["<A>"], "<truncated>" and "<prose>" for text
\* that is not JSON.  str.replace and str.strip see such a stretch as
\* ordinary characters that match none of what they look for.

BT == "bt"

Whitespace == {" ", "\n", "\t"}

\* The marker that opens a fenced json block: three backticks and "json".
FenceJson == <<BT, BT, BT, "j", "s", "o", "n">>

\* The bare fence marker: three backticks.
Fence == <<BT, BT, BT>>

\* s.replace(old, ""): every non-overlapping occurrence, left to right.
RECURSIVE RemoveAll(_, _)
RemoveAll(s, old) ==
    IF Len(s) < Len(old) THEN s
    ELSE IF SubSeq(s, 1, Len(old)) = old
    THEN RemoveAll(SubSeq(s, Len(old) + 1, Len(s)), old)
    ELSE <<Head(s)>> \o RemoveAll(Tail(s), old)

RECURSIVE LStrip(_)
LStrip(s) == IF s # <<>> /\ Head(s) \in Whitespace THEN LStrip(Tail(s)) ELSE s

RECURSIVE RStrip(_)
RStrip(s) ==
    IF s # <<>> /\ s[Len(s)] \in Whitespace THEN RStrip(SubSeq(s, 1, Len(s) - 1)) ELSE s

\* s.strip()
Strip(s) == RStrip(LStrip(s))

\* (Variant: the trailing .strip() left out.)
CleanJsonNoStrip(raw_text) == RemoveAll(RemoveAll(raw_text, FenceJson), Fence)

\* clean_json of agent_analyst.
CleanJson(raw_text) == Strip(RemoveAll(RemoveAll(raw_text, FenceJson), Fence))

\* ------------------------------------------------------------------------
\* What the hosted model may answer the analyst.

\* The double 0.2, as json.loads returns it for the JSON number 0.2.
F02 == FloatHex(<<9, 9, 9, 9, 9, 9, 9, 9, 9, 9, 9, 9, 10>>, -3)

Foods == PyList(<<"chapati", "paneer butter masala">>)

\* The value json.loads returns for each JSON document the model draws.
Document(id) ==
    CASE id = "<A>" -> PyDict([foods |-> Foods, meal_total_cals |-> PyInt(500),
                               meal_total_prot |-> PyInt(13), meal_total_carbs |-> PyInt(60),
                               meal_total_fats |-> PyInt(10), reasoning |-> PyStr("by portion")])
      [] id = "<NoCarbsFats>" -> PyDict([foods |-> Foods, meal_total_cals |-> PyInt(250),
                               meal_total_prot |-> PyInt(9)])
      [] id = "<NoFats>" -> PyDict([foods |-> Foods, meal_total_cals |-> PyInt(120),
                               meal_total_prot |-> PyInt(4), meal_total_carbs |-> PyInt(22)])
      [] id = "<Fraction>" -> PyDict([foods |-> Foods, meal_total_cals |-> PyInt(20),
                               meal_total_prot |-> PyInt(2), meal_total_carbs |-> PyInt(3),
                               meal_total_fats |-> F02])
      [] id = "<NoProt>" -> PyDict([foods |-> Foods, meal_total_cals |-> PyInt(400),
                               meal_total_carbs |-> PyInt(50), meal_total_fats |-> PyInt(8)])
      [] id = "<NullCarbs>" -> PyDict([foods |-> Foods, meal_total_cals |-> PyInt(350),
                               meal_total_prot |-> PyInt(15), meal_total_carbs |-> PyNone,
                               meal_total_fats |-> PyInt(12)])
      [] id = "<NoFoods>" -> PyDict([meal_total_cals |-> PyInt(200),
                               meal_total_prot |-> PyInt(8), meal_total_carbs |-> PyInt(25),
                               meal_total_fats |-> PyInt(6)])
      [] id = "<List>" -> PyList(<<"chapati">>)
      [] id = "<EmptyObject>" -> PyDict(<<>>)
      [] id = "<null>" -> PyNone

DocIds ==
    {"<A>", "<NoCarbsFats>", "<NoFats>", "<Fraction>", "<NoProt>", "<NullCarbs>",
     "<NoFoods>", "<List>", "<EmptyObject>", "<null>"}

\* json.loads(text): the text must be exactly one JSON document (the text
\* it is given has been stripped); anything else raises JSONDecodeError.
JsonLoads(text) ==
    IF Len(text) = 1 /\ text[1] \in DocIds THEN Document(text[1])
    ELSE Raise("JSONDecodeError")

\* A reply of the hosted model: the call raises, or returns a text.
ModelRaises == [kind |-> "raise", text |-> <<>>]

ModelText(text) == [kind |-> "text", text |-> text]

\* The replies drawn: every document bare, one document in each kind of
\* fence the prompt forbids, text that is not JSON, and a failed call.
Replies ==
    {ModelRaises}
    \cup {ModelText(<<id>>) : id \in DocIds}
    \cup {ModelText(FenceJson \o <<"\n", "<A>", "\n">> \o Fence),
          ModelText(<<" ">> \o Fence \o <<"\n", "<NoCarbsFats>", "\n">> \o Fence \o <<"\n">>),
          ModelText(FenceJson \o <<"\n", "<truncated>">>),
          ModelText(<<"<prose>">>)}

\* (Variant: a failed call is tried a second time before giving up.)
AgentAnalystRetrying(reply) ==
    IF reply.kind = "raise" THEN [value |-> PyNone, error |-> TRUE, attempts |-> 2]
    ELSE LET parsed == JsonLoads(CleanJson(reply.text))
         IN  IF IsExc(parsed) THEN [value |-> PyNone, error |-> TRUE, attempts |-> 1]
             ELSE [value |-> parsed, error |-> FALSE, attempts |-> 1]

\* (Variant: the except branch returns the error's text, not None.)
AgentAnalystLeaky(reply) ==
    IF reply.kind = "raise" THEN [value |-> PyNone, error |-> TRUE, attempts |-> 1]
    ELSE LET parsed == JsonLoads(CleanJson(reply.text))
         IN  IF IsExc(parsed) THEN [value |-> PyStr(parsed.name), error |-> TRUE, attempts |-> 1]
             ELSE [value |-> parsed, error |-> FALSE, attempts |-> 1]

\* agent_analyst(image_input, text_input), given the model's reply: the
\* parsed value, or None after st.error when anything in the try raised.
\* attempts counts its calls of model.generate_content.
AgentAnalyst(reply) ==
    IF reply.kind = "raise" THEN [value |-> PyNone, error |-> TRUE, attempts |-> 1]
    ELSE LET parsed == JsonLoads(CleanJson(reply.text))
         IN  IF IsExc(parsed) THEN [value |-> PyNone, error |-> TRUE, attempts |-> 1]
             ELSE [value |-> parsed, error |-> FALSE, attempts |-> 1]

\* agent_coach(user_profile, current_meal, daily_history), given whether the
\* model's call raises: nothing catches the exception, so it leaves the
\* function; otherwise the advice text is returned.
AgentCoach(call_raises) ==
    IF call_raises THEN [raised |-> "CoachError", attempts |-> 1]
    ELSE [raised |-> "", attempts |-> 1]

\* ------------------------------------------------------------------------
\* The sidebar: profile and targets.

MinWeight == 40

MaxWeight == 120

DefaultWeight == 70

\* The options of the "Current Phase" selectbox, word by word.
GoalTypes ==
    << <<"Lean", "Bulk", "(Minimizing", "Fat)">>,
       <<"Dirty", "Bulk", "(Max", "Size/Strength)">>,
       <<"Maintenance", "(Recomp)">>,
       <<"Aggressive", "Cut", "(Fast", "Fat", "Loss)">> >>

\* word in goal_type ("Bulk" and "Cut" occur in the options only as words).
InGoal(word, goal) == \E k \in 1..Len(goal) : goal[k] = word

\* The float literals 2.0, 2.4 and 1.8.
F20 == FloatHex(<<0, 0, 0, 0, 0, 0, 0, 0, 0, 0, 0, 0, 0>>, 1)

F24 == FloatHex(<<3, 3, 3, 3, 3, 3, 3, 3, 3, 3, 3, 3, 3>>, 1)

F18 == FloatHex(<<12, 12, 12, 12, 12, 12, 12, 12, 12, 12, 12, 12, 13>>, 0)

BulkCals == 35

CutCals == 24

MaintCals == 30

\* (Variant: 2.2 g per kg in the bulk phases.)
F22 == FloatHex(<<1, 9, 9, 9, 9, 9, 9, 9, 9, 9, 9, 9, 10>>, 1)

TargetProtHighBulk(w, goal) ==
    IF InGoal("Bulk", goal) THEN FloatToInt(FloatMulInt(F22, w))
    ELSE IF InGoal("Cut", goal) THEN FloatToInt(FloatMulInt(F24, w))
    ELSE FloatToInt(FloatMulInt(F18, w))

\* target_prot = int(weight * <factor>)
TargetProt(w, goal) ==
    IF InGoal("Bulk", goal) THEN FloatToInt(FloatMulInt(F20, w))
    ELSE IF InGoal("Cut", goal) THEN FloatToInt(FloatMulInt(F24, w))
    ELSE FloatToInt(FloatMulInt(F18, w))

\* target_cals = weight * <factor>
TargetCals(w, goal) ==
    IF InGoal("Bulk", goal) THEN w * BulkCals
    ELSE IF InGoal("Cut", goal) THEN w * CutCals
    ELSE w * MaintCals

\* ------------------------------------------------------------------------
\* The session and the script's runs.

\* Meals the log may hold before the model stops taking more.
MaxLog == 3

VARIABLES
    daily_log,      \* st.session_state.daily_log
    daily_stats,    \* st.session_state.daily_stats
    weight,         \* the "Weight (kg)" slider
    goal_type,      \* the "Current Phase" selectbox
    target_prot,    \* the last run's target_prot
    target_cals,    \* the last run's target_cals
    user_text,      \* the "Describe your meal" text area
    user_image,     \* the uploaded plate photo, "" for None
    clicked,        \* the button the last run handled: "none", "reset", "analyze"
    reply,          \* the hosted model's reply to the last run's analyst
    clean_json,     \* the last run's clean_json, the text given to json.loads
    clean_again,    \* clean_json cleaned once more (the normaliser's check only)
    meal_data,      \* the last run's meal_data
    calls,          \* the hosted-model calls the last run made, in order
    shown,          \* the messages the last run displayed, in order
    raised,         \* the exception that ended the last run, "" for none
    changed         \* whether the last run left daily_log or daily_stats changed

vars ==
    <<daily_log, daily_stats, weight, goal_type, target_prot, target_cals, user_text,
      user_image, clicked, reply, clean_json, clean_again, meal_data, calls, shown,
      raised, changed>>

profile == <<weight, goal_type, target_prot, target_cals>>

ZeroStats == [cals |-> PyInt(0), prot |-> PyInt(0), carbs |-> PyInt(0), fats |-> PyInt(0)]

\* A local the run did not bind.
Unbound == [t |-> "unbound"]

NoReply == [kind |-> "none", text |-> <<>>]

NoText == <<"<unset>">>

Init ==
    /\ daily_log = <<>>
    /\ daily_stats = ZeroStats
    /\ weight = DefaultWeight
    /\ goal_type = GoalTypes[1]
    /\ target_prot = TargetProt(DefaultWeight, GoalTypes[1])
    /\ target_cals = TargetCals(DefaultWeight, GoalTypes[1])
    /\ user_text = ""
    /\ user_image = ""
    /\ clicked = "none"
    /\ reply = NoReply
    /\ clean_json = NoText
    /\ clean_again = NoText
    /\ meal_data = Unbound
    /\ calls = <<>>
    /\ shown = <<>>
    /\ raised = ""
    /\ changed = FALSE

\* (Variant: "=" written where "+=" stands.)
AddIntoAssign(acc, field, value) ==
    IF acc.raised # "" THEN acc
    ELSE IF IsExc(value) THEN [acc EXCEPT !.raised = value.name]
    ELSE IF ~IsNumber(value) THEN [acc EXCEPT !.raised = "TypeError"]
    ELSE [acc EXCEPT !.stats[field] = value]

\* One "stats[field] += value" of Update Memory: skipped once a statement
\* has raised; a value that raised, or an addition that raises, stores
\* nothing and ends the run.
AddInto(acc, field, value) ==
    IF acc.raised # "" THEN acc
    ELSE IF IsExc(value) THEN [acc EXCEPT !.raised = value.name]
    ELSE LET sum == PyAdd(acc.stats[field], value)
         IN  IF IsExc(sum) THEN [acc EXCEPT !.raised = sum.name]
             ELSE [acc EXCEPT !.stats[field] = sum]

\* "Step 2: Update Memory": the append, then the four additions in order.
UpdateMemory(meal, log, stats) ==
    LET a0 == [log |-> Append(log, meal), stats |-> stats, raised |-> ""]
        a1 == AddInto(a0, "cals", GetItem(meal, "meal_total_cals"))
        a2 == AddInto(a1, "prot", GetItem(meal, "meal_total_prot"))
        a3 == AddInto(a2, "carbs", DictGet(meal, "meal_total_carbs", PyInt(0)))
    IN  AddInto(a3, "fats", DictGet(meal, "meal_total_fats", PyInt(0)))

\* The "Results Display" block: the exception reading the meal's fields
\* raises, "" for none.  The totals were read by Update Memory already; the
\* table reads meal_data['foods'].
ResultsDisplay(meal) ==
    IF IsExc(GetItem(meal, "foods")) THEN GetItem(meal, "foods").name ELSE ""

Repeat(x, n) == [k \in 1..n |-> x]

\* (Variant: the image test inverted.)
MissingInputSlip(text, image) == text = "" /\ image # ""

\* "if not user_text and not user_image": nothing to analyse.
MissingInput(text, image) == text = "" /\ image = ""

\* One run of the script with "Analyze & Log Meal" pressed, up to and
\* including "Step 2: Update Memory".  coach tells whether the run goes on
\* to "Step 3: Agent Coach".
AnalyzeToMemory(log, stats, text, image, model_reply) ==
    LET idle == [log |-> log, stats |-> stats, reply |-> NoReply, clean |-> NoText,
                 meal |-> Unbound, calls |-> <<>>, shown |-> <<>>, raised |-> "",
                 coach |-> FALSE]
    IN  IF MissingInput(text, image)
        THEN [idle EXCEPT !.shown = <<"Please provide text or an image.">>]
        ELSE LET analyst == AgentAnalyst(model_reply)
                 meal == analyst.value
                 said == IF analyst.error THEN <<"Agent Analyst Error">> ELSE <<>>
                 ran == [idle EXCEPT !.reply = model_reply,
                                     !.clean = IF model_reply.kind = "text"
                                               THEN CleanJson(model_reply.text) ELSE NoText,
                                     !.meal = meal,
                                     !.calls = Repeat("analyst", analyst.attempts),
                                     !.shown = said]
             IN  IF ~Truthy(meal)
                 THEN [ran EXCEPT !.shown = said \o <<"Analysis failed. Please try again.">>]
                 ELSE LET mem == UpdateMemory(meal, log, stats)
                      IN  [ran EXCEPT !.log = mem.log, !.stats = mem.stats,
                                      !.raised = mem.raised, !.coach = mem.raised = ""]

\* The rest of that run: the coach, the success report, the results display.
AnalyzeFromCoach(run, coach_raises) ==
    IF ~run.coach THEN run
    ELSE LET coach == AgentCoach(coach_raises)
             adv == [run EXCEPT !.calls = run.calls \o Repeat("coach", coach.attempts)]
         IN  IF coach.raised # ""
             THEN [adv EXCEPT !.raised = coach.raised]
             ELSE [adv EXCEPT !.shown = run.shown \o <<"Meal Logged Successfully!">>,
                              !.raised = ResultsDisplay(run.meal)]

UserTexts == {"", "2 chapatis and paneer butter masala"}

UserImages == {"", "plate.jpg"}

\* The user fills the form and presses "Analyze & Log Meal".
AnalyzeAndLogMeal ==
    /\ Len(daily_log) < MaxLog
    /\ \E text \in UserTexts, image \in UserImages :
       \E model_reply \in (IF MissingInput(text, image) THEN {NoReply} ELSE Replies) :
       \E memory \in {AnalyzeToMemory(daily_log, daily_stats, text, image, model_reply)} :
       \E run \in {AnalyzeFromCoach(memory, coach_raises) : coach_raises \in BOOLEAN} :
          /\ user_text' = text
          /\ user_image' = image
          /\ clicked' = "analyze"
          /\ daily_log' = run.log
          /\ daily_stats' = run.stats
          /\ changed' = (run.log # daily_log \/ run.stats # daily_stats)
          /\ reply' = run.reply
          /\ clean_json' = run.clean
          /\ meal_data' = run.meal
          /\ calls' = run.calls
          /\ shown' = run.shown
          /\ raised' = run.raised
    /\ UNCHANGED <<profile, clean_again>>

\* (Variant: the log is not cleared.)
ResetStatsOnly == [log |-> daily_log, stats |-> ZeroStats]

\* What the "Reset Daily Log" handler stores.
ResetState == [log |-> <<>>, stats |-> ZeroStats]

\* The user presses "Reset Daily Log": the handler, then st.rerun().
ResetDailyLog ==
    /\ clicked' = "reset"
    /\ daily_log' = ResetState.log
    /\ daily_stats' = ResetState.stats
    /\ changed' = (ResetState.log # daily_log \/ ResetState.stats # daily_stats)
    /\ reply' = NoReply
    /\ clean_json' = NoText
    /\ meal_data' = Unbound
    /\ calls' = <<>>
    /\ shown' = <<>>
    /\ raised' = ""
    /\ UNCHANGED <<profile, user_text, user_image, clean_again>>

Next == AnalyzeAndLogMeal \/ ResetDailyLog

\* The session: the two buttons, with the profile left at its defaults.
Spec == Init /\ [][Next]_vars

\* ------------------------------------------------------------------------
\* The profile widgets.  Moving one re-runs the script with no button
\* pressed: the targets are computed afresh, the session is left alone.

RunWithoutButton ==
    /\ clicked' = "none"
    /\ reply' = NoReply
    /\ clean_json' = NoText
    /\ meal_data' = Unbound
    /\ calls' = <<>>
    /\ shown' = <<>>
    /\ raised' = ""
    /\ changed' = FALSE
    /\ UNCHANGED <<daily_log, daily_stats, user_text, user_image, clean_again>>

ChangeWeight ==
    /\ \E w \in MinWeight..MaxWeight :
          /\ w # weight
          /\ weight' = w
          /\ target_prot' = TargetProt(w, goal_type)
          /\ target_cals' = TargetCals(w, goal_type)
    /\ UNCHANGED goal_type
    /\ RunWithoutButton

ChangeGoal ==
    /\ \E g \in 1..Len(GoalTypes) :
          /\ GoalTypes[g] # goal_type
          /\ goal_type' = GoalTypes[g]
          /\ target_prot' = TargetProt(weight, GoalTypes[g])
          /\ target_cals' = TargetCals(weight, GoalTypes[g])
    /\ UNCHANGED weight
    /\ RunWithoutButton

NextProfile == ChangeWeight \/ ChangeGoal

SpecProfile == Init /\ [][NextProfile]_vars

\* ------------------------------------------------------------------------
\* The normaliser alone, on raw texts put together from a few pieces.

\* Pieces a raw text is put together from, at most.
MaxPieces == 5

Pieces ==
    {Fence, FenceJson, <<BT>>, <<"j", "s", "o", "n">>, <<" ">>, <<"\n">>, <<"<A>">>,
     <<"<prose>">>}

RECURSIVE TextsOf(_)
TextsOf(n) ==
    IF n = 0 THEN {<<>>}
    ELSE LET shorter == TextsOf(n - 1)
         IN  shorter \cup {piece \o text : piece \in Pieces, text \in shorter}

RawTexts == TextsOf(MaxPieces)

\* The analyst holds the model's raw text.
InitNorm ==
    /\ daily_log = <<>>
    /\ daily_stats = ZeroStats
    /\ weight = DefaultWeight
    /\ goal_type = GoalTypes[1]
    /\ target_prot = TargetProt(DefaultWeight, GoalTypes[1])
    /\ target_cals = TargetCals(DefaultWeight, GoalTypes[1])
    /\ user_text \in UserTexts \ {""}
    /\ user_image = ""
    /\ clicked = "analyze"
    /\ reply \in {ModelText(text) : text \in RawTexts}
    /\ clean_json = NoText
    /\ clean_again = NoText
    /\ meal_data = Unbound
    /\ calls = <<"analyst">>
    /\ shown = <<>>
    /\ raised = ""
    /\ changed = FALSE

session == <<daily_log, daily_stats, user_text, user_image, clicked, reply, meal_data,
             calls, shown, raised, changed>>

\* raw_text is cleaned.
CleanOnce ==
    /\ clean_json = NoText
    /\ clean_json' = CleanJson(reply.text)
    /\ UNCHANGED <<session, profile, clean_again>>

\* The cleaned text is cleaned again.
CleanTwice ==
    /\ clean_json # NoText
    /\ clean_again = NoText
    /\ clean_again' = CleanJson(clean_json)
    /\ UNCHANGED <<session, profile, clean_json>>

NextNorm == CleanOnce \/ CleanTwice

SpecNorm == InitNorm /\ [][NextNorm]_vars
\* ------------------------------------------------------------------------
\* Properties.

Success == "Meal Logged Successfully!"

Said(msg) == \E k \in 1..Len(shown) : shown[k] = msg

Called(agent) == \E k \in 1..Len(calls) : calls[k] = agent

Has(meal, key) == meal.t = "dict" /\ key \in DOMAIN meal.d

HasNumber(meal, key) == Has(meal, key) /\ IsNumber(meal.d[key])

HasInt(meal, key) == Has(meal, key) /\ meal.d[key].t = "int"

\* A meal whose totals Update Memory adds without an exception.
Complete(meal) ==
    /\ HasNumber(meal, "meal_total_cals")
    /\ HasNumber(meal, "meal_total_prot")
    /\ Has(meal, "meal_total_carbs") => HasNumber(meal, "meal_total_carbs")
    /\ Has(meal, "meal_total_fats") => HasNumber(meal, "meal_total_fats")

\* A complete meal whose totals are all integers.
Integral(meal) ==
    /\ HasInt(meal, "meal_total_cals")
    /\ HasInt(meal, "meal_total_prot")
    /\ Has(meal, "meal_total_carbs") => HasInt(meal, "meal_total_carbs")
    /\ Has(meal, "meal_total_fats") => HasInt(meal, "meal_total_fats")

\* The accumulators after the meals of the sequence are logged in order,
\* starting from stats.
RECURSIVE Accumulated(_, _)
Accumulated(stats, meals) ==
    IF meals = <<>> THEN stats
    ELSE Accumulated(UpdateMemory(Head(meals), <<>>, stats).stats, Tail(meals))

\* The meals logged after the first k, in every order.
Reorderings(meals, k) ==
    {[j \in 1..(Len(meals) - k) |-> meals[k + order[j]]] :
        order \in Permutations(1..(Len(meals) - k))}

\* Whatever prefix of the log gave the starting accumulators, logging the
\* rest in any order gives the accumulators the session holds.
OrderIndependent ==
    \A k \in 0..Len(daily_log) :
        \A rest \in Reorderings(daily_log, k) :
            Accumulated(Accumulated(ZeroStats, SubSeq(daily_log, 1, k)), rest) = daily_stats

\* C1, as claimed: for any successfully analysed meals the accumulators do
\* not depend on the order in which the meals were logged.
C1_AnyMealsOrderIndependent ==
    (\A k \in 1..Len(daily_log) : Complete(daily_log[k])) => OrderIndependent

\* C1, amended: when all the logged totals are integers, the accumulators do
\* not depend on the order in which the meals were logged.
C1_IntegerMealsOrderIndependent ==
    (\A k \in 1..Len(daily_log) : Integral(daily_log[k])) => OrderIndependent

\* Three different integer meals are logged.
C1_Witness ==
    /\ Len(daily_log) = 3
    /\ \A k \in 1..3 : Integral(daily_log[k])
    /\ daily_log[1] # daily_log[2] /\ daily_log[2] # daily_log[3]
    /\ daily_log[1] # daily_log[3]
    /\ daily_stats.carbs = PyInt(82)

\* C2: after "Reset Daily Log", whatever came before, all four accumulators
\* are 0 and the log is empty.
C2_ResetZeroes ==
    clicked = "reset" =>
        /\ daily_stats.cals = PyInt(0) /\ daily_stats.prot = PyInt(0)
        /\ daily_stats.carbs = PyInt(0) /\ daily_stats.fats = PyInt(0)
        /\ daily_log = <<>>

\* A reset that found a session with something in it.
C2_Witness == clicked = "reset" /\ changed /\ daily_log = <<>>

\* The phase multipliers the claim gives, times ten, by selectbox option.
ProtTimesTen == <<20, 20, 18, 24>>

CalsFactor == <<35, 35, 30, 24>>

Phase == CHOOSE g \in 1..Len(GoalTypes) : GoalTypes[g] = goal_type

\* C3, as claimed: target protein is weight x the phase multiplier rounded
\* to the nearest integer, and target calories weight x the phase multiplier.
C3_TargetsRounded ==
    /\ target_prot = (weight * ProtTimesTen[Phase] + 5) \div 10
    /\ target_cals = weight * CalsFactor[Phase]

\* C3, amended: target protein is weight x the phase multiplier rounded
\* down to an integer, and target calories weight x the phase multiplier.
C3_TargetsTruncated ==
    /\ target_prot = (weight * ProtTimesTen[Phase]) \div 10
    /\ target_cals = weight * CalsFactor[Phase]

\* 42 kg in the cut phase: 100.8 g becomes 100 g.
C3_Witness ==
    /\ weight = 42 /\ InGoal("Cut", goal_type)
    /\ target_prot = 100 /\ target_cals = 1008

C5_NoInputNoCalls ==
    (clicked = "analyze" /\ user_text = "" /\ user_image = "") =>
        /\ shown = <<"Please provide text or an image.">>
        /\ calls = <<>>
        /\ reply = NoReply
        /\ ~changed
        /\ raised = ""

\* Pressed with nothing entered, in a session that holds a meal.
C5_Witness ==
    /\ clicked = "analyze" /\ user_text = "" /\ user_image = ""
    /\ daily_log # <<>> /\ calls = <<>>

\* Text that is not JSON: truncated JSON, or prose.
Malformed(text) == \E k \in 1..Len(text) : text[k] \in {"<truncated>", "<prose>"}

\* C6: when the model's text is malformed or its call raises, the analyst
\* reports failure, nothing is raised, the session is as before and the
\* coach is not called.
C6_FailureDiscardsAnalysis ==
    (clicked = "analyze" /\ (reply.kind = "raise" \/ Malformed(reply.text))) =>
        /\ meal_data = PyNone
        /\ raised = ""
        /\ Said("Agent Analyst Error") /\ Said("Analysis failed. Please try again.")
        /\ ~Said(Success)
        /\ ~changed
        /\ ~Called("coach")

\* Truncated JSON arrives in a session that holds a meal.
C6_Witness ==
    /\ clicked = "analyze" /\ reply.kind = "text" /\ Malformed(reply.text)
    /\ daily_log # <<>> /\ meal_data = PyNone

\* A payload with foods and integer calories and protein that lacks the
\* carbs total, the fats total or both.
LacksOptional(meal) ==
    /\ Has(meal, "foods")
    /\ HasInt(meal, "meal_total_cals")
    /\ HasInt(meal, "meal_total_prot")
    /\ ~Has(meal, "meal_total_carbs") \/ ~Has(meal, "meal_total_fats")
    /\ Has(meal, "meal_total_carbs") => HasNumber(meal, "meal_total_carbs")
    /\ Has(meal, "meal_total_fats") => HasNumber(meal, "meal_total_fats")

\* C7: logging a payload that lacks the carbs or fats total raises nothing
\* for the missing field: its accumulator stays, calories and protein grow
\* by the payload's values, and the log gets exactly the parsed payload.
C7_MissingOptionalIsZero ==
    [][(clicked' = "analyze" /\ LacksOptional(meal_data')) =>
        /\ raised' \in {"", "CoachError"}
        /\ Called("coach")'
        /\ raised' = "" => Said(Success)'
        /\ meal_data' = JsonLoads(clean_json')
        /\ daily_log' = Append(daily_log, meal_data')
        /\ daily_stats'.cals = PyInt(daily_stats.cals.i + meal_data'.d.meal_total_cals.i)
        /\ daily_stats'.prot = PyInt(daily_stats.prot.i + meal_data'.d.meal_total_prot.i)
        /\ ~Has(meal_data', "meal_total_carbs") => daily_stats'.carbs = daily_stats.carbs
        /\ ~Has(meal_data', "meal_total_fats") => daily_stats'.fats = daily_stats.fats]_vars

\* A payload without carbs and fats totals is logged after a meal that had
\* both.
C7_Witness ==
    /\ clicked = "analyze" /\ LacksOptional(meal_data)
    /\ ~Has(meal_data, "meal_total_carbs") /\ ~Has(meal_data, "meal_total_fats")
    /\ raised = "" /\ Said(Success)
    /\ Len(daily_log) = 2 /\ daily_log[2] = meal_data
    /\ daily_stats.carbs = PyInt(60) /\ daily_stats.fats = PyInt(10)

StartsWith(text, marker) ==
    Len(text) >= Len(marker) /\ SubSeq(text, 1, Len(marker)) = marker

EndsWith(text, marker) ==
    Len(text) >= Len(marker)
    /\ SubSeq(text, Len(text) - Len(marker) + 1, Len(text)) = marker

WithoutLeadingMarker(text) ==
    IF StartsWith(text, FenceJson) THEN SubSeq(text, Len(FenceJson) + 1, Len(text))
    ELSE IF StartsWith(text, Fence) THEN SubSeq(text, Len(Fence) + 1, Len(text))
    ELSE text

WithoutTrailingMarker(text) ==
    IF EndsWith(text, Fence) THEN SubSeq(text, 1, Len(text) - Len(Fence)) ELSE text

\* The text with its surrounding whitespace, one leading marker and one
\* trailing marker taken off, and nothing else changed.
Unwrapped(text) ==
    Strip(WithoutTrailingMarker(WithoutLeadingMarker(Strip(text))))

Occurs(marker, text) ==
    \E k \in 1..Len(text) :
        k + Len(marker) - 1 <= Len(text) /\ SubSeq(text, k, k + Len(marker) - 1) = marker

\* C8, as claimed: the text given to the parser is the raw text without its
\* leading and trailing markers and surrounding whitespace, nothing else
\* changed.
C8_OnlyOuterMarkersRemoved ==
    clean_json # NoText => clean_json = Unwrapped(reply.text)

\* C8, amended: that holds when no backtick is left between the outer
\* markers; in every case no fence marker is left in the cleaned text, text
\* without markers and surrounding whitespace passes unchanged, and cleaning
\* twice gives what cleaning once gives.
C8_MarkersRemovedEverywhere ==
    /\ clean_json # NoText =>
        /\ ~Occurs(<<BT>>, Unwrapped(reply.text)) => clean_json = Unwrapped(reply.text)
        /\ ~Occurs(Fence, clean_json)
        /\ clean_json = Strip(clean_json)
        /\ (~Occurs(Fence, reply.text) /\ reply.text = Strip(reply.text)) =>
              clean_json = reply.text
    /\ clean_again # NoText => clean_again = clean_json

\* A fenced, padded document has been cleaned twice.
C8_Witness ==
    /\ StartsWith(reply.text, FenceJson) /\ EndsWith(reply.text, <<"\n">> \o Fence)
    /\ clean_json = <<"<A>">>
    /\ clean_again = <<"<A>">>

\* The total a logged value counts for: its number under the key, 0 when
\* the key is missing (or the value is no dict, or holds no number there).
Counted(meal, key) == IF HasNumber(meal, key) THEN meal.d[key] ELSE PyInt(0)

RECURSIVE SumOver(_, _)
SumOver(meals, key) ==
    IF meals = <<>> THEN PyInt(0)
    ELSE PyAdd(SumOver(SubSeq(meals, 1, Len(meals) - 1), key),
               Counted(meals[Len(meals)], key))

\* C9: each accumulator is the sum of its total over the meals in the log.
C9_StatsMatchLog ==
    /\ daily_stats.cals = SumOver(daily_log, "meal_total_cals")
    /\ daily_stats.prot = SumOver(daily_log, "meal_total_prot")
    /\ daily_stats.carbs = SumOver(daily_log, "meal_total_carbs")
    /\ daily_stats.fats = SumOver(daily_log, "meal_total_fats")

\* C10: a press of "Analyze & Log Meal" that does not get to the success
\* report leaves the session as it was.
C10_ChangeOnlyOnSuccess ==
    (clicked = "analyze" /\ ~Said(Success)) => ~changed
====
